---------------------------- MODULE Spec2Model ----------------------------
(***************************************************************************)
(* Calorie tracker: the page component Home (src/unnamed/part_000) and the *)
(* route handler POST /api/analyze (src/src/app/api/analyze/route.ts).     *)
(*                                                                         *)
(* JSON values are records tagged by their JavaScript type, so that a      *)
(* missing field, null, a number, a string and a boolean stay distinct and *)
(* the coercions of the source (Number(x) || 0, x || 0, x ?? y, !x) are    *)
(* computed as JavaScript computes them.  Display-only fields (mealTitle,  *)
(* notes, confidence, raw, time, theme) are left out.                      *)
(***************************************************************************)
EXTENDS Integers, Sequences, FiniteSets, TLC

\* ------------------------------------------------------------ bounds
MaxItems == 2      \* longest items array the estimation service returns
MaxSubmits == 2    \* submissions that pass validation, per behaviour

\* ------------------------------------------------------- JSON values
Undef == [t |-> "undefined"]
JNull == [t |-> "null"]
JNum(n) == [t |-> "number", n |-> n]
JStr(s) == [t |-> "string", s |-> s]
JBool(b) == [t |-> "boolean", b |-> b]
JArr(a) == [t |-> "array", a |-> a]
JObj(o) == [t |-> "object", o |-> o]

NaN == [nan |-> TRUE, n |-> 0]
Fin(n) == [nan |-> FALSE, n |-> n]

\* Number(string): the empty string is 0, a decimal numeral its value,
\* anything else NaN.
StringToNumber(s) ==
    CASE s = ""  -> Fin(0)
      [] s = "0" -> Fin(0)
      [] s = "1" -> Fin(1)
      [] s = "2" -> Fin(2)
      [] s = "3" -> Fin(3)
      [] OTHER   -> NaN

\* JavaScript Number(v)
Number(v) ==
    CASE v.t = "undefined" -> NaN
      [] v.t = "null"      -> Fin(0)
      [] v.t = "number"    -> Fin(v.n)
      [] v.t = "string"    -> StringToNumber(v.s)
      [] v.t = "boolean"   -> Fin(IF v.b THEN 1 ELSE 0)
      [] OTHER             -> NaN

\* x || 0 on a JavaScript number: NaN and 0 are falsy
OrZero(x) == IF x.nan \/ x.n = 0 THEN 0 ELSE x.n

\* !v on a JSON value
Falsy(v) ==
    \/ v.t \in {"undefined", "null"}
    \/ v.t = "string" /\ v.s = ""
    \/ v.t = "number" /\ v.n = 0
    \/ v.t = "boolean" /\ ~v.b

\* property access item.f on a parsed JSON value: undefined on a primitive
\* or an object without the field (the caller excludes null, which throws)
Field(item, f) ==
    IF item.t = "object" /\ f \in DOMAIN item.o THEN item.o[f] ELSE Undef

MacroFields == {"kcal", "protein", "carbs", "fat"}
ZeroMacros == [kcal |-> 0, protein |-> 0, carbs |-> 0, fat |-> 0]

Macros(k, p, c, f) ==
    JObj([kcal |-> JNum(k), protein |-> JNum(p), carbs |-> JNum(c), fat |-> JNum(f)])

\* ------------------------------------------- the estimation service
\* Elements the service may put in "items": a well-formed item, an item
\* with a missing, a non-numeric, a numeric-string and a boolean macro
\* field, and a null element.
ItemPool ==
    { JObj([name |-> JStr("Rice"), quantity |-> JStr("1 cup"),
            kcal |-> JNum(2), protein |-> JNum(1), carbs |-> JNum(3), fat |-> JNum(1)]),
      JObj([name |-> JStr("Soup"),
            protein |-> JStr("abc"), carbs |-> JStr("2"), fat |-> JBool(TRUE)]),
      JNull }

ItemLists == UNION { [1..n -> ItemPool] : n \in 0..MaxItems }

\* A total reported by the service; it disagrees with every sum of items.
UpstreamTotal == Macros(7, 7, 7, 7)

\* The "items" field of a completion: absent, not an array, or an array.
UpstreamItems == {Undef, JStr("none")} \cup { JArr(a) : a \in ItemLists }

\* A completion parsed as a JSON object; "items" and "total" may be absent.
Completion(items, total) ==
    JObj([f \in {"mealTitle"}
                \cup (IF items = Undef THEN {} ELSE {"items"})
                \cup (IF total = Undef THEN {} ELSE {"total"}) |->
            CASE f = "items" -> items
              [] f = "total" -> total
              [] OTHER       -> JStr("Meal")])

\* What openai.chat.completions.create can do: throw, return no content,
\* return text that is not JSON, or return JSON text (given by its value).
UpstreamOutcomes ==
    { [kind |-> "throw"], [kind |-> "empty"], [kind |-> "text"],
      [kind |-> "json", value |-> JNull] }
    \cup { [kind |-> "json", value |-> Completion(i, t)] :
             i \in UpstreamItems, t \in {Undef, UpstreamTotal} }

NotCalled == [kind |-> "not called"]

\* ------------------------------------------------ HTTP request bodies
Payload(fields, m, i) ==
    JObj([f \in {"mealLabel"} \cup fields |->
            CASE f = "message"     -> m
              [] f = "imageBase64" -> i
              [] OTHER             -> JStr("Lunch")])

\* Bodies any caller can post: text that is not JSON, the JSON literals
\* null and 5, and objects with or without message and imageBase64.
RequestBodies ==
    { [kind |-> "text"], [kind |-> "json", value |-> JNull],
      [kind |-> "json", value |-> JNum(5)],
      [kind |-> "json", value |-> Payload({}, Undef, Undef)],
      [kind |-> "json", value |-> Payload({"message"}, JStr("rice"), Undef)] }
    \cup { [kind |-> "json", value |-> Payload({"message", "imageBase64"}, JStr(m), i)] :
             m \in {"", "rice"}, i \in {JNull, JStr("data:image")} }

\* ---------------------------------------------- the route handler POST
ErrorResponse(status, text, steps) ==
    [status |-> status, json |-> TRUE, body |-> JObj([error |-> JStr(text)]),
     steps |-> steps]

\* An exception that escapes the handler: the framework answers 500 with a
\* body that is not JSON.
UncaughtResponse(steps) ==
    [status |-> 500, json |-> FALSE, body |-> Undef, steps |-> steps]

\* items.reduce(...) of the handler, from the accumulator acc
RECURSIVE reduceItems(_, _)
reduceItems(items, acc) ==
    IF items = <<>> THEN acc
    ELSE LET item == Head(items)
         IN  reduceItems(Tail(items),
                 [kcal    |-> acc.kcal    + OrZero(Number(Field(item, "kcal"))),
                  protein |-> acc.protein + OrZero(Number(Field(item, "protein"))),
                  carbs   |-> acc.carbs   + OrZero(Number(Field(item, "carbs"))),
                  fat     |-> acc.fat     + OrZero(Number(Field(item, "fat")))])

\* const items = Array.isArray(parsed.items) ? parsed.items : []
NormalizedItems(parsed) ==
    LET it == Field(parsed, "items")
    IN  IF it.t = "array" THEN it.a ELSE <<>>

\* Faulty variant of GatewayTotal: fat is summed from the carbs column.
GatewayTotalCarbsAsFat(items) ==
    LET t == reduceItems(items, ZeroMacros)
    IN  Macros(t.kcal, t.protein, t.carbs, t.carbs)

\* The total the handler returns for the normalized items.
GatewayTotal(items) ==
    LET t == reduceItems(items, ZeroMacros)
    IN  Macros(t.kcal, t.protein, t.carbs, t.fat)

\* The try block: the call of the service and the normalization of its
\* completion.  Every exception in it becomes the generic 500 response.
Analyze(up, steps) ==
    LET failed == ErrorResponse(500, "Unable to analyze meal right now.", steps)
    IN  IF up.kind \in {"throw", "empty", "text"} THEN failed
        ELSE IF up.value = JNull THEN failed            \* parsed.items throws
        ELSE LET items == NormalizedItems(up.value)
             IN  IF \E i \in 1..Len(items) : items[i] = JNull
                 THEN failed                            \* item.kcal throws
                 ELSE [status |-> 200, json |-> TRUE,
                       body |-> JObj([mealTitle |-> JStr("Meal"),
                                      items |-> JArr(items),
                                      total |-> GatewayTotal(items)]),
                       steps |-> steps]

\* POST(req), with the environment's credential and the outcome of the
\* service call, if one is made.  steps records what the handler did:
\* "req.json" (the body was read) and "openai" (the service was called).
POST(key, body, up) ==
    IF ~key THEN ErrorResponse(500, "OPENAI_API_KEY is not configured.", {})
    ELSE IF body.kind # "json"
    THEN ErrorResponse(400, "Invalid JSON payload.", {"req.json"})
    ELSE IF body.value = JNull
    THEN UncaughtResponse({"req.json"})           \* destructuring null throws
    ELSE IF Falsy(Field(body.value, "message")) /\ Falsy(Field(body.value, "imageBase64"))
    THEN ErrorResponse(400, "Provide an image or a description to analyze.", {"req.json"})
    ELSE Analyze(up, {"req.json", "openai"})

\* Whether POST calls the service for this credential and body.
CallsService(key, body) == "openai" \in POST(key, body, [kind |-> "throw"]).steps

\* ------------------------------------------------------------- state
VARIABLES
    apiKey,          \* process.env.OPENAI_API_KEY is set
    gwReq,           \* body of the request POST handled last
    gwUp,            \* what the estimation service did for it
    gwRes,           \* the response POST returned for it
    selectedDate, historyByDate, chat, message, imagePreview, isSending, error,
    todaysEntries,   \* useMemo value of the last render
    totals,          \* useMemo value of the last render
    calls,           \* the handleSubmit invocations that are awaiting, each
                     \* with its closure and its HTTP exchange
    nextId,          \* crypto.randomUUID(): the next fresh id
    submits,         \* submissions that passed validation so far
    last             \* the step taken last (an event log of length one)

gwVars == <<apiKey, gwReq, gwUp, gwRes>>
uiVars == <<selectedDate, historyByDate, chat, message, imagePreview, isSending,
            error, todaysEntries, totals>>
runVars == <<calls, nextId, submits, last>>
vars == <<gwVars, uiVars, runVars>>

Dates == {"2024-05-01", "2024-05-02"}
Today == "2024-05-01"
Drafts == {"", "rice"}
Images == {JNull, JStr("data:image")}

initialAssistantMessage == "Upload a photo or tell me what you ate."
ValidationMessage == "Add a photo or describe your meal first."

NoResponse == [status |-> 0, json |-> FALSE, body |-> Undef]

\* ------------------------------------------------------------ render
\* historyByDate[selectedDate] ?? []
EntriesOf(hist, date) == IF date \in DOMAIN hist THEN hist[date] ELSE <<>>

\* todaysEntries.reduce(...) of the totals memo
RECURSIVE reduceEntries(_, _)
reduceEntries(entries, acc) ==
    IF entries = <<>> THEN acc
    ELSE LET m == Head(entries).macros.o
         IN  reduceEntries(Tail(entries),
                 [kcal    |-> acc.kcal    + m.kcal.n,
                  protein |-> acc.protein + m.protein.n,
                  carbs   |-> acc.carbs   + m.carbs.n,
                  fat     |-> acc.fat     + m.fat.n])

\* Faulty variant of todaysEntriesMemo: selectedDate is missing from the dependencies.
todaysEntriesMemoNoDate(cached, oldHist, oldDate, newHist, newDate) ==
    IF newHist = oldHist THEN cached
    ELSE IF newDate \in DOMAIN newHist THEN newHist[newDate] ELSE <<>>

\* useMemo(() => historyByDate[selectedDate] ?? [], [historyByDate, selectedDate]):
\* the cached value is kept unless a dependency changed since the last render.
todaysEntriesMemo(cached, oldHist, oldDate, newHist, newDate) ==
    IF newHist = oldHist /\ newDate = oldDate THEN cached
    ELSE EntriesOf(newHist, newDate)

\* useMemo(() => todaysEntries.reduce(...), [todaysEntries])
totalsMemo(cached, oldEntries, newEntries) ==
    IF newEntries = oldEntries THEN cached
    ELSE reduceEntries(newEntries, ZeroMacros)

\* The render that follows a state update.
Render ==
    /\ todaysEntries' = todaysEntriesMemo(todaysEntries, historyByDate, selectedDate,
                                          historyByDate', selectedDate')
    /\ totals' = totalsMemo(totals, todaysEntries, todaysEntries')

\* ---------------------------------------------------------- handleSubmit
\* computeTotals(items): item.f || 0 added to the accumulator, for items
\* whose macro fields are numbers, booleans, null or missing.
ClientOrZero(v) ==
    CASE v.t = "number"  -> v.n
      [] v.t = "boolean" -> IF v.b THEN 1 ELSE 0
      [] OTHER           -> 0

RECURSIVE reduceClientItems(_, _)
reduceClientItems(items, acc) ==
    IF items = <<>> THEN acc
    ELSE LET item == Head(items)
         IN  reduceClientItems(Tail(items),
                 [kcal    |-> acc.kcal    + ClientOrZero(Field(item, "kcal")),
                  protein |-> acc.protein + ClientOrZero(Field(item, "protein")),
                  carbs   |-> acc.carbs   + ClientOrZero(Field(item, "carbs")),
                  fat     |-> acc.fat     + ClientOrZero(Field(item, "fat"))])

computeTotals(items) ==
    LET t == reduceClientItems(items, ZeroMacros)
    IN  Macros(t.kcal, t.protein, t.carbs, t.fat)

\* x ?? y
Nullish(v) == v.t \in {"undefined", "null"}

\* data.items ?? []
ItemsOf(data) ==
    LET it == Field(data, "items") IN IF Nullish(it) THEN <<>> ELSE it.a

\* Faulty variant of EntryMacros: the response's total is ignored.
EntryMacrosRecomputed(data) ==
    LET it == Field(data, "items")
    IN  computeTotals(IF it.t \in {"undefined", "null"} THEN <<>> ELSE it.a)

\* const macros = data.total ?? computeTotals(data.items ?? [])
EntryMacros(data) ==
    LET total == Field(data, "total")
    IN  IF Nullish(total) THEN computeTotals(ItemsOf(data)) ELSE total

\* The entry handleSubmit builds from the parsed response and its closure.
NewEntry(data, id, image) ==
    [id |-> id, macros |-> EntryMacros(data), items |-> ItemsOf(data), image |-> image]

\* setHistoryByDate(prev => ({...prev, [date]: [...(prev[date] ?? []), entry]}))
AppendEntry(prev, date, entry) ==
    [d \in DOMAIN prev \cup {date} |->
        IF d = date THEN Append(EntriesOf(prev, date), entry) ELSE prev[d]]

\* Faulty variant of EntryDate: the date is read when the entry is appended.
EntryDateCurrent(closureDate, currentDate) == currentDate

\* The date the new entry is stored under: the selectedDate of the render
\* whose handleSubmit was invoked (the closure), not the state at append time.
EntryDate(closureDate, currentDate) == closureDate

\* message || "(photo only)"
UserLine(m) == [role |-> "user", text |-> IF m = "" THEN "(photo only)" ELSE m]
AssistantLine(text) == [role |-> "assistant", text |-> text]

\* JSON.stringify({ message, imageBase64: imagePreview, mealLabel })
RequestBody(m, image) ==
    [kind |-> "json", value |-> Payload({"message", "imageBase64"}, JStr(m), image)]

\* Faulty variant of SubmitEnabled: the button is never disabled.
SubmitAlwaysEnabled(sending) == TRUE

\* The submit button is disabled while isSending (disabled={isSending}).
SubmitEnabled(sending) == ~sending

\* Faulty variant of InputMissing: the negation of imagePreview is dropped.
InputMissingImageGiven(m, image) == m = "" /\ image.t = "string" /\ image.s # ""

\* if (!message && !imagePreview)
InputMissing(m, image) == m = "" /\ Falsy(image)

\* Faulty variant of IsOk: the status is not looked at.
IsOkAlways(res) == TRUE

\* res.ok
IsOk(res) == res.status \in 200..299

\* err.error || "AI analysis failed", err being the body or {} when the
\* body of the non-OK response is not JSON
ErrorText(res) ==
    LET e == IF res.json THEN Field(res.body, "error") ELSE Undef
    IN  IF Falsy(e) THEN "AI analysis failed" ELSE e.s

SyntaxErrorMessage == "Unexpected token < in JSON at position 0"
NetworkErrorMessage == "Failed to fetch"
SummaryText == "summary"

\* Faulty variant of FailureChat: the catch block sets the error only.
FailureChatSilent(prev, msg) == prev

\* The chat after the catch block: setChat(prev => [...prev, {assistant, message}])
FailureChat(prev, msg) == Append(prev, AssistantLine(msg))

\* ------------------------------------------------------------- Init
Init ==
    /\ apiKey \in BOOLEAN
    /\ gwReq = [kind |-> "none"]
    /\ gwUp = NotCalled
    /\ gwRes = NoResponse
    /\ selectedDate = Today
    /\ historyByDate = [d \in {} |-> <<>>]
    /\ chat = <<AssistantLine(initialAssistantMessage)>>
    /\ message = ""
    /\ imagePreview = JNull
    /\ isSending = FALSE
    /\ error = JNull
    /\ todaysEntries = <<>>
    /\ totals = ZeroMacros
    /\ calls = {}
    /\ nextId = 1
    /\ submits = 0
    /\ last = "none"

\* ------------------------------------------------------ user events
\* onChange of the date input: setSelectedDate(e.target.value)
DateChange(d) ==
    /\ selectedDate' = d
    /\ last' = "edit"
    /\ UNCHANGED <<gwVars, historyByDate, chat, message, imagePreview, isSending,
                   error, calls, nextId, submits>>
    /\ Render

\* onChange of the textarea: setMessage(e.target.value)
MessageChange(m) ==
    /\ message' = m
    /\ last' = "edit"
    /\ UNCHANGED <<gwVars, selectedDate, historyByDate, chat, imagePreview, isSending,
                   error, calls, nextId, submits>>
    /\ Render

\* handleFileChange with a file: reader.onload sets the preview
handleFileChange ==
    /\ imagePreview' = JStr("data:image")
    /\ last' = "edit"
    /\ UNCHANGED <<gwVars, selectedDate, historyByDate, chat, message, isSending,
                   error, calls, nextId, submits>>
    /\ Render

\* handleSubmit up to its first await (or its early return)
handleSubmit ==
    /\ SubmitEnabled(isSending)
    /\ \/ /\ InputMissing(message, imagePreview)
          /\ error' = JStr(ValidationMessage)
          /\ last' = "invalid"
          /\ UNCHANGED <<chat, isSending, calls, submits>>
       \/ /\ ~InputMissing(message, imagePreview)
          /\ submits < MaxSubmits
          /\ error' = JNull
          /\ isSending' = TRUE
          /\ chat' = Append(chat, UserLine(message))
          /\ calls' = calls \cup
                {[n |-> submits + 1, pc |-> "fetch",
                  message |-> message, imagePreview |-> imagePreview,
                  selectedDate |-> selectedDate,
                  net |-> "request", body |-> RequestBody(message, imagePreview),
                  res |-> NoResponse]}
          /\ submits' = submits + 1
          /\ last' = "sent"
    /\ UNCHANGED <<gwVars, selectedDate, historyByDate, message, imagePreview, nextId>>
    /\ Render

\* catch and finally of handleSubmit
Fail(c, msg, how) ==
    /\ error' = JStr(msg)
    /\ chat' = FailureChat(chat, msg)
    /\ isSending' = FALSE
    /\ message' = ""
    /\ imagePreview' = JNull
    /\ calls' = calls \ {c}
    /\ last' = how
    /\ UNCHANGED <<gwVars, selectedDate, historyByDate, nextId, submits>>
    /\ Render

\* fetch rejects (a network failure, before or after the server answered)
FetchReject(c) ==
    /\ c.pc = "fetch"
    /\ Fail(c, NetworkErrorMessage, "rejected")

\* fetch resolves with the response; handleSubmit goes on to await res.json()
FetchResolve(c) ==
    /\ c.pc = "fetch"
    /\ c.net = "response"
    /\ calls' = (calls \ {c}) \cup {[c EXCEPT !.pc = "read", !.net = "done"]}
    /\ last' = "fetched"
    /\ UNCHANGED <<gwVars, uiVars, nextId, submits>>

\* handleSubmit from the await of the body to its end
ResponseRead(c) ==
    /\ c.pc = "read"
    /\ IF ~IsOk(c.res)
       THEN Fail(c, ErrorText(c.res), "notOk")
       ELSE IF ~c.res.json
       THEN Fail(c, SyntaxErrorMessage, "unreadable")
       ELSE LET entry == NewEntry(c.res.body, nextId, c.imagePreview)
            IN  /\ historyByDate' =
                       AppendEntry(historyByDate,
                                   EntryDate(c.selectedDate, selectedDate), entry)
                /\ chat' = Append(chat, AssistantLine(SummaryText))
                /\ nextId' = nextId + 1
                /\ isSending' = FALSE
                /\ message' = ""
                /\ imagePreview' = JNull
                /\ calls' = calls \ {c}
                /\ last' = "success"
                /\ UNCHANGED <<gwVars, selectedDate, error, submits>>
                /\ Render

\* ------------------------------------------------------ server side
Answer(c, res) ==
    calls' = (calls \ {c}) \cup
             {[c EXCEPT !.net = "response",
                        !.res = [status |-> res.status, json |-> res.json,
                                 body |-> res.body]]}

\* The route handler serves the request of invocation c.
GatewayServe(c, up) ==
    /\ c.pc = "fetch"
    /\ c.net = "request"
    /\ up = NotCalled <=> ~CallsService(apiKey, c.body)
    /\ Answer(c, POST(apiKey, c.body, up))
    /\ last' = "served"
    /\ UNCHANGED <<gwVars, uiVars, nextId, submits>>

\* What stands between the page and the route handler (a proxy, the
\* platform's error page) answers with a body that is not JSON.
Intermediary(c, status) ==
    /\ c.pc = "fetch"
    /\ c.net = "request"
    /\ Answer(c, [status |-> status, json |-> FALSE, body |-> Undef])
    /\ last' = "served"
    /\ UNCHANGED <<gwVars, uiVars, nextId, submits>>

\* The route handler serves a request of any caller.
GatewayRequest(body, up) ==
    /\ up = NotCalled <=> ~CallsService(apiKey, body)
    /\ gwReq' = body
    /\ gwUp' = up
    /\ gwRes' = POST(apiKey, body, up)
    /\ UNCHANGED <<apiKey, uiVars, runVars>>

\* Responses of the declared type AnalyzeResponse: total and items are
\* optional, and so are the macro fields of an item.
TypedItemPool ==
    { JObj([name |-> JStr("Rice"), quantity |-> JStr("1 cup"),
            kcal |-> JNum(2), protein |-> JNum(1), carbs |-> JNum(3), fat |-> JNum(1)]),
      JObj([name |-> JStr("Soup"), quantity |-> JStr("1 bowl"),
            protein |-> JNum(2), carbs |-> JNum(1)]) }

TypedBodies ==
    { Completion(i, t) :
        i \in {Undef} \cup
              { JArr(a) : a \in UNION { [1..n -> TypedItemPool] : n \in 0..MaxItems } },
        t \in {Undef, Macros(5, 4, 3, 2)} }

\* A server that answers 200 with any response of the declared type.
ServerReply(c, body) ==
    /\ c.pc = "fetch"
    /\ c.net = "request"
    /\ Answer(c, [status |-> 200, json |-> TRUE, body |-> body])
    /\ last' = "served"
    /\ UNCHANGED <<gwVars, uiVars, nextId, submits>>

\* --------------------------------------------------- specifications
UserNext ==
    \/ \E d \in Dates : DateChange(d)
    \/ \E m \in Drafts : MessageChange(m)
    \/ handleFileChange
    \/ handleSubmit
    \/ \E c \in calls : FetchReject(c)
    \/ \E c \in calls : FetchResolve(c)
    \/ \E c \in calls : ResponseRead(c)

\* The page with the route handler behind it.
Next ==
    \/ UserNext
    \/ \E c \in calls, up \in UpstreamOutcomes \cup {NotCalled} : GatewayServe(c, up)
    \/ \E c \in calls, status \in {200, 502} : Intermediary(c, status)

Spec == Init /\ [][Next]_vars

\* The route handler alone, called with any body.
NextGateway ==
    \E body \in RequestBodies, up \in UpstreamOutcomes \cup {NotCalled} :
        GatewayRequest(body, up)

SpecGateway == Init /\ [][NextGateway]_vars

\* The page with a server that answers with any typed response.
NextClient ==
    \/ UserNext
    \/ \E c \in calls, body \in TypedBodies : ServerReply(c, body)

\* The route handler takes no part here, so its environment is fixed.
InitClient == Init /\ apiKey

SpecClient == InitClient /\ [][NextClient]_vars

\* ============================================================ claims
FailureOutcomes == {"invalid", "rejected", "notOk", "unreadable"}

\* The invocations that return in this step.
Returning == { c \in calls : \A c2 \in calls' : c2.n # c.n }

\* The invocation has read the headers of a 2xx response with a JSON body.
GotSuccess(c) == c.pc = "read" /\ c.res.status \in 200..299 /\ c.res.json

\* C1: a submission that ends in failure (validation, network, non-OK
\* response, unreadable response) leaves historyByDate as it was; the log
\* changes only in the step that follows a successful response.
C1_FailureKeepsLog ==
    [][ /\ last' \in FailureOutcomes => historyByDate' = historyByDate
        /\ \A c \in Returning : ~GotSuccess(c) => historyByDate' = historyByDate
        /\ historyByDate' # historyByDate =>
               (last' = "success" /\ \E c \in Returning : GotSuccess(c)) ]_vars

\* C1 witness: a submission has just failed on a non-OK response while the
\* log holds an earlier entry.
C1_Witness == last = "notOk" /\ DOMAIN historyByDate # {}

\* The sum over items of field f, a missing field or one that fails numeric
\* coercion counting as 0, by position.
RECURSIVE CoercedSum(_, _, _)
CoercedSum(items, f, i) ==
    IF i = 0 THEN 0
    ELSE CoercedSum(items, f, i - 1) + OrZero(Number(Field(items[i], f)))

C3_ItemsNormalized ==
    gwRes.status = 200 =>
        \A i \in 1..Len(gwRes.body.o.items.a) :
            \A f \in MacroFields : Field(gwRes.body.o.items.a[i], f).t = "number"

AppendedUnder(d, id) ==
    /\ d \in DOMAIN historyByDate'
    /\ LET old == IF d \in DOMAIN historyByDate THEN historyByDate[d] ELSE <<>>
           new == historyByDate'[d]
       IN  /\ Len(new) = Len(old) + 1
           /\ new[Len(new)].id = id
           /\ \A i \in 1..Len(old) : new[i] = old[i]
    /\ \A e \in DOMAIN historyByDate' \ {d} :
           e \in DOMAIN historyByDate /\ historyByDate'[e] = historyByDate[e]

\* C5 as stated: the new entry goes under the date selected at the moment
\* it is appended.
C5_AppendUnderCurrentDate ==
    [][ last' = "success" => AppendedUnder(selectedDate', nextId) ]_vars

\* C5 amended: the new entry goes under the date that was selected when the
\* submission was made, also when the selected date has changed since; it
\* becomes the last entry of that date and the earlier entries keep their
\* order.
C5_AppendUnderSubmitDate ==
    [][ /\ last' = "sent" =>
            \A c \in calls' : c.n = submits' => c.selectedDate = selectedDate
        /\ last' = "success" =>
            \A c \in Returning : AppendedUnder(c.selectedDate, nextId) ]_vars

\* C5 witness: an entry has just been appended as the second one of a date
\* that is not the selected date.
C5_Witness ==
    /\ last = "success"
    /\ \E d \in DOMAIN historyByDate :
           /\ d # selectedDate
           /\ Len(historyByDate[d]) = 2
           /\ historyByDate[d][2].id = nextId - 1

\* The sum of macro f over the entries, by position.
RECURSIVE MacroSum(_, _, _)
MacroSum(entries, f, i) ==
    IF i = 0 THEN 0 ELSE MacroSum(entries, f, i - 1) + entries[i].macros.o[f].n

\* C6: the displayed totals are the element-wise sum of the macros of the
\* entries logged under the selected date, zero when there are none.
C6_TotalsFollowLog ==
    LET es == IF selectedDate \in DOMAIN historyByDate
              THEN historyByDate[selectedDate] ELSE <<>>
    IN  /\ todaysEntries = es
        /\ totals = [f \in MacroFields |-> MacroSum(es, f, Len(es))]

\* C6 witness: two entries under the selected date, another date logged
\* too, and the date was changed last.
C6_Witness ==
    /\ last = "edit"
    /\ selectedDate \in DOMAIN historyByDate
    /\ Len(historyByDate[selectedDate]) = 1
    /\ Cardinality(DOMAIN historyByDate) = 2
    /\ totals.kcal > 0

\* The body decodes into the payload shape: it is JSON and not null.
Decodable(body) == body.kind = "json" /\ body.value # JNull

\* Neither message nor imageBase64 is given in the body.
BothAbsent(body) ==
    \A f \in {"message", "imageBase64"} :
        \/ body.value.t # "object"
        \/ f \notin DOMAIN body.value.o
        \/ body.value.o[f] \in {JNull, JStr("")}

\* C7: without the credential the result is the configuration error (500)
\* and the body is not read; otherwise a body that does not decode into the
\* payload shape gives the invalid-payload error (400); otherwise a body
\* without description and image gives the missing-input error (400); the
\* estimation service is called in none of the three cases.
C7_ChecksInOrder ==
    gwReq.kind # "none" =>
        IF ~apiKey
        THEN /\ gwRes.status = 500
             /\ gwRes.body = JObj([error |-> JStr("OPENAI_API_KEY is not configured.")])
             /\ gwRes.steps = {}
        ELSE IF ~Decodable(gwReq)
        THEN /\ gwRes.status = 400
             /\ gwRes.body = JObj([error |-> JStr("Invalid JSON payload.")])
             /\ "openai" \notin gwRes.steps
        ELSE IF BothAbsent(gwReq)
        THEN /\ gwRes.status = 400
             /\ gwRes.body =
                    JObj([error |-> JStr("Provide an image or a description to analyze.")])
             /\ "openai" \notin gwRes.steps
        ELSE "openai" \in gwRes.steps

\* C8: a submission with the description and the image both empty fails with
\* the validation error; isSending is not set and no request is sent.
C8_EmptySubmissionRejected ==
    [][ (last' \in {"invalid", "sent"} /\ message = "" /\ imagePreview \in {JNull, JStr("")}) =>
            /\ last' = "invalid"
            /\ error' = JStr(ValidationMessage)
            /\ ~isSending'
            /\ calls' = calls
            /\ submits' = submits ]_vars

\* C8 witness: an empty submission has just been rejected after an earlier
\* submission went through.
C8_Witness == last = "invalid" /\ submits > 0 /\ ~isSending

\* The sum of macro f over typed items, a missing field counting as 0, by
\* position.
RECURSIVE PresentSum(_, _, _)
PresentSum(items, f, i) ==
    IF i = 0 THEN 0
    ELSE PresentSum(items, f, i - 1)
            + (IF f \in DOMAIN items[i].o THEN items[i].o[f].n ELSE 0)

\* C9: the macros of the new entry are the response's total when it has
\* one, and otherwise the element-wise sum over the response's items with
\* missing fields counting as 0 ({0,0,0,0} when there are no items).
C9_EntryMacros ==
    [][ last' = "success" =>
            \A c \in Returning :
                LET data == c.res.body.o
                    day == historyByDate'[c.selectedDate]
                    entry == day[Len(day)]
                    items == IF "items" \in DOMAIN data THEN data.items.a ELSE <<>>
                    n == Len(items)
                IN  /\ entry.id = nextId
                    /\ entry.items = items
                    /\ entry.macros =
                          IF "total" \in DOMAIN data THEN data.total
                          ELSE Macros(PresentSum(items, "kcal", n),
                                      PresentSum(items, "protein", n),
                                      PresentSum(items, "carbs", n),
                                      PresentSum(items, "fat", n)) ]_vars

\* C9 witness: an entry built from a response without total whose two items
\* include one with missing fields.
C9_Witness ==
    /\ last = "success"
    /\ \E d \in DOMAIN historyByDate :
         \E i \in 1..Len(historyByDate[d]) :
            LET e == historyByDate[d][i]
            IN  /\ e.id = nextId - 1
                /\ Len(e.items) = 2
                /\ \E k \in 1..2 : "kcal" \notin DOMAIN e.items[k].o
                /\ e.macros # Macros(5, 4, 3, 2)
                /\ e.macros.o.carbs.n > 0

\* C10: at most one submission is outstanding; isSending is set exactly
\* while one is, from the submission that passes validation to its
\* completion, where it is cleared together with the draft; no request is
\* started while it is set.
C10_OneOutstanding ==
    /\ [](Cardinality(calls) <= 1 /\ (isSending <=> calls # {}))
    /\ [][ /\ (~isSending /\ isSending') => (last' = "sent" /\ Cardinality(calls') = 1)
           /\ (isSending /\ ~isSending') =>
                  /\ last' \in {"rejected", "notOk", "unreadable", "success"}
                  /\ calls' = {}
                  /\ message' = ""
                  /\ imagePreview' = JNull
           /\ isSending => (last' # "sent" /\ submits' = submits)
           /\ (isSending /\ isSending') =>
                  {c.n : c \in calls'} = {c.n : c \in calls} ]_vars

\* C10 witness: the second submission is outstanding and the user has typed
\* a new draft meanwhile.
C10_Witness == isSending /\ submits = 2 /\ message = "rice" /\ last = "edit"

=============================================================================
